---------------------------- MODULE Spec2Model ----------------------------
(***************************************************************************)
(* State-machine model of the recursive-descent parser in                  *)
(* src/parse/parse.go (type Parser).  The parser's call stack is explicit: *)
(* one frame per active production, one action per straight-line piece of  *)
(* a production between two calls.  Source text is modelled by the item    *)
(* sequence the lexer makes of it.                                         *)
(***************************************************************************)
EXTENDS Integers, Sequences, FiniteSets, TLC

(***************************************************************************)
(* Bounds of the model.                                                    *)
(***************************************************************************)
\* longest free item sequence over the general alphabet
MaxLen == 3
\* longest free part of the structured input families
MaxBody == 5
\* longest item sequence handed to a parser that is used again
MaxReuseLen == 2
\* Parse calls made on one parser
MaxCalls == 2

(***************************************************************************)
(* Values.                                                                 *)
(***************************************************************************)
\* Go's nil (a nil Node, a nil *Lexer, a nil Context, a nil error)
Nil == [kind |-> "nil"]

\* strings are sequences of one-character strings; Go's s[i:j]
Slice(s, i, j) == SubSeq(s, i + 1, j)

\* strings.IndexRune: 0-based index of the first c in s, -1 when absent
IndexRune(s, c) ==
  IF \E i \in 1..Len(s) : s[i] = c
  THEN (CHOOSE i \in 1..Len(s) : s[i] = c /\ \A j \in 1..(i - 1) : s[j] # c) - 1
  ELSE -1

\* a|b on open-mode flags, each flag a set of the os.O_* bits it has
BitOr(a, b) == a \cup b
O_RDONLY == {}
O_WRONLY == {"O_WRONLY"}
O_RDWR == {"O_RDWR"}
O_CREATE == {"O_CREATE"}
O_APPEND == {"O_APPEND"}

(***************************************************************************)
(* Items (tokens).  A lexeme is an item without its position.              *)
(***************************************************************************)
Lexeme(typ, val, end) == [Typ |-> typ, Val |-> val, End |-> end]

\* the zero value of Item, what a new Parser's lookahead buffer holds
ZeroItem == [Typ |-> "ItemZero", Val |-> <<>>, Pos |-> 0, End |-> {}]

RECURSIVE Offset(_, _)
\* byte offset of the i-th lexeme of text: the lengths of those before it
Offset(text, i) ==
  IF i <= 1 THEN 0 ELSE Offset(text, i - 1) + Len(text[i - 1].Val)

\* the item the lexer returns for pull number n (1-based); ItemEOF from the
\* end of the text on, however often it is asked
ItemAt(text, n) ==
  IF n <= Len(text)
  THEN [Typ |-> text[n].Typ, Val |-> text[n].Val,
        Pos |-> Offset(text, n), End |-> text[n].End]
  ELSE [Typ |-> "ItemEOF", Val |-> <<>>,
        Pos |-> Offset(text, Len(text) + 1), End |-> {}]

\* Lex(name, text): a lexer at the start of text
Lex(name, text) == [kind |-> "Lexer", input |-> text, pulled |-> 0]

\* Lexer.NextItem: the next item and the lexer after it
NextItem(lex) ==
  [lex |-> [lex EXCEPT !.pulled = @ + 1],
   item |-> ItemAt(lex.input, lex.pulled + 1)]

(***************************************************************************)
(* The parser object.  hist is a history field, not a field of the Go      *)
(* struct: the items next() has handed out and backup() has not taken      *)
(* back, in order.                                                         *)
(***************************************************************************)
NewParser(name) ==
  [Name |-> name, Root |-> Nil, Ctx |-> Nil, text |-> <<>>, tab |-> FALSE,
   lex |-> Nil, token |-> [i \in 0..2 |-> ZeroItem], peekCount |-> 0,
   hist |-> <<>>]

(***************************************************************************)
(* Token cursor.  Each operation returns the parser after it and the item  *)
(* it hands out.                                                           *)
(***************************************************************************)
\* as next, but the lexer is asked even when the buffer holds a token
nextIgnoresBuffer(p) ==
  LET r == NextItem(p.lex)
      q == [p EXCEPT !.peekCount = IF @ > 0 THEN @ - 1 ELSE 0,
                     !.lex = r.lex, !.token[0] = r.item]
  IN [p |-> [q EXCEPT !.hist = Append(@, q.token[q.peekCount])],
      token |-> q.token[q.peekCount]]

next(p) ==
  LET q == IF p.peekCount > 0
           THEN [p EXCEPT !.peekCount = @ - 1]
           ELSE LET r == NextItem(p.lex)
                IN [p EXCEPT !.lex = r.lex, !.token[0] = r.item]
  IN [p |-> [q EXCEPT !.hist = Append(@, q.token[q.peekCount])],
      token |-> q.token[q.peekCount]]

backup(p) ==
  [p EXCEPT !.peekCount = @ + 1,
            !.hist = SubSeq(@, 1, Len(@) - 1)]

backup2(p, t1) ==
  [p EXCEPT !.token[1] = t1, !.peekCount = 2,
            !.hist = SubSeq(@, 1, Len(@) - 2)]

backup3(p, t2, t1) ==
  [p EXCEPT !.token[1] = t1, !.token[2] = t2, !.peekCount = 3,
            !.hist = SubSeq(@, 1, Len(@) - 3)]

peek(p) ==
  IF p.peekCount > 0
  THEN [p |-> p, token |-> p.token[p.peekCount - 1]]
  ELSE LET r == NextItem(p.lex)
       IN [p |-> [p EXCEPT !.peekCount = 1, !.lex = r.lex, !.token[0] = r.item],
           token |-> r.item]

RECURSIVE nextNonSpace(_)
nextNonSpace(p) ==
  LET r == next(p)
  IN IF r.token.Typ # "ItemSpace" THEN r ELSE nextNonSpace(r.p)

peekNonSpace(p) ==
  LET r == nextNonSpace(p)
  IN [p |-> backup(r.p), token |-> r.token]

(***************************************************************************)
(* AST nodes, redirections, errors.                                        *)
(***************************************************************************)
newList(pos) == [kind |-> "List", Pos |-> pos, Nodes |-> <<>>]

\* ListNode.append
append(list, n) == [list EXCEPT !.Nodes = Append(@, n)]

newCommand(pos) ==
  [kind |-> "Command", Pos |-> pos, ListNode |-> newList(pos), Redirs |-> <<>>]

newFactor(pos) == [kind |-> "Factor", Pos |-> pos, Dollar |-> 0, Node |-> Nil]

newString(pos, quoted, text) ==
  [kind |-> "String", Pos |-> pos, Quoted |-> quoted, Text |-> text]

newTable(pos) == [kind |-> "Table", Pos |-> pos, List |-> <<>>, Dict |-> <<>>]

appendToList(tn, term) == [tn EXCEPT !.List = Append(@, term)]

appendToDict(tn, key, value) ==
  [tn EXCEPT !.Dict = Append(@, [Key |-> key, Value |-> value])]

newFilenameRedir(fd, flag, filename) ==
  [kind |-> "FilenameRedir", fd |-> fd, Flag |-> flag, Filename |-> filename]

NewFdRedir(fd, oldFd) == [kind |-> "FdRedir", fd |-> fd, OldFd |-> oldFd]

newCloseRedir(fd) == [kind |-> "CloseRedir", fd |-> fd]

NewArgContext(val) == [kind |-> "ArgContext", Val |-> val]

NewContextualError(name, text, pos, format, args) ==
  [kind |-> "ContextualError", srcname |-> name, text |-> text, pos |-> pos,
   format |-> format, args |-> args]

(***************************************************************************)
(* Literal decoding.  Characters that TLA+ strings cannot hold as they are *)
(* go by name: "bq" the backquote, "dq" the double quote, "bs" the         *)
(* backslash, "nl" the newline, "tab" the tab.                             *)
(***************************************************************************)
RECURSIVE Replace(_)
\* strings.Replace(s, two backquotes, one backquote, -1)
Replace(s) ==
  IF Len(s) = 0 THEN <<>>
  ELSE IF Len(s) >= 2 /\ s[1] = "bq" /\ s[2] = "bq"
       THEN <<"bq">> \o Replace(SubSeq(s, 3, Len(s)))
       ELSE <<s[1]>> \o Replace(Tail(s))

\* the escapes of a double-quoted literal and what each stands for
Escapes == [c \in {"n", "t", "bs", "dq"} |->
              IF c = "n" THEN "nl" ELSE IF c = "t" THEN "tab" ELSE c]

RECURSIVE Unescape(_)
\* the body of a double-quoted literal decoded; err is Nil or the syntax error
Unescape(s) ==
  IF Len(s) = 0 THEN [text |-> <<>>, err |-> Nil]
  ELSE IF s[1] = "dq"
       THEN [text |-> <<>>, err |-> [kind |-> "ErrSyntax"]]
  ELSE IF s[1] = "bs"
       THEN IF Len(s) >= 2 /\ s[2] \in DOMAIN Escapes
            THEN LET r == Unescape(SubSeq(s, 3, Len(s)))
                 IN [text |-> <<Escapes[s[2]]>> \o r.text, err |-> r.err]
            ELSE [text |-> <<>>, err |-> [kind |-> "ErrSyntax"]]
  ELSE LET r == Unescape(Tail(s))
       IN [text |-> <<s[1]>> \o r.text, err |-> r.err]

\* strconv.Unquote on a double-quoted literal
Unquote(val) ==
  IF Len(val) < 2 \/ val[1] # "dq" \/ val[Len(val)] # "dq"
  THEN [text |-> <<>>, err |-> [kind |-> "ErrSyntax"]]
  ELSE LET r == Unescape(Slice(val, 1, Len(val) - 1))
       IN IF r.err = Nil THEN r ELSE [text |-> <<>>, err |-> r.err]

unquote(token) ==
  CASE token.Typ = "ItemBare" -> [text |-> token.Val, err |-> Nil]
    [] token.Typ = "ItemSingleQuoted" ->
         [text |-> Replace(Slice(token.Val, 1, Len(token.Val) - 1)), err |-> Nil]
    [] token.Typ = "ItemDoubleQuoted" -> Unquote(token.Val)
    [] OTHER -> [text |-> <<>>, err |-> [kind |-> "BadTokenType"]]

startsFactor(typ) ==
  typ \in {"ItemBare", "ItemSingleQuoted", "ItemDoubleQuoted",
           "ItemLParen", "ItemLBracket", "ItemDollar"}

(***************************************************************************)
(* The redirection leader: everything redir does before it asks for the    *)
(* target term.                                                            *)
(***************************************************************************)
Digits == [c \in {"0", "1", "2", "3", "4", "5", "6", "7", "8", "9"} |->
             CASE c = "0" -> 0 [] c = "1" -> 1 [] c = "2" -> 2 [] c = "3" -> 3
               [] c = "4" -> 4 [] c = "5" -> 5 [] c = "6" -> 6 [] c = "7" -> 7
               [] c = "8" -> 8 [] c = "9" -> 9]

RECURSIVE AtouValue(_)
AtouValue(s) ==
  IF Len(s) = 0 THEN 0
  ELSE AtouValue(SubSeq(s, 1, Len(s) - 1)) * 10 + Digits[s[Len(s)]]

\* Atou: text to unsigned integer, or an error
Atou(s) ==
  IF Len(s) > 0 /\ \A i \in 1..Len(s) : s[i] \in DOMAIN Digits
  THEN [val |-> AtouValue(s), err |-> Nil]
  ELSE [val |-> 0, err |-> [kind |-> "ErrAtou"]]

\* redir, lines 348-355: the leader's direction and qualifier
redirPartition(val) ==
  LET i == IndexRune(val, "[")
  IN IF i # -1
     THEN [dir |-> Slice(val, 0, i), qual |-> Slice(val, i + 1, Len(val) - 1)]
     ELSE [dir |-> val, qual |-> <<>>]

\* redir, lines 363-378: the flag and default fd of a direction
redirDirection(dir) ==
  CASE dir = <<"<">> -> [ok |-> TRUE, flag |-> O_RDONLY, fd |-> 0]
    [] dir = <<"<", ">">> ->
         [ok |-> TRUE, flag |-> BitOr(O_RDWR, O_CREATE), fd |-> 0]
    [] dir = <<">">> ->
         [ok |-> TRUE, flag |-> BitOr(O_WRONLY, O_CREATE), fd |-> 1]
    [] dir = <<">", ">">> ->
         [ok |-> TRUE, flag |-> BitOr(BitOr(O_WRONLY, O_CREATE), O_APPEND),
          fd |-> 1]
    [] OTHER -> [ok |-> FALSE, flag |-> {}, fd |-> 0]

\* as redirQualifier, but a qualifier without "=" does not set the fd
redirQualifierKeepsDefault(qual, fd) ==
  IF Len(qual) > 0
  THEN LET i == IndexRune(qual, "=")
       IN IF i # -1
          THEN LET lhs == Slice(qual, 0, i)
                   rhs == Slice(qual, i + 1, Len(qual))
                   new == IF Len(lhs) > 0 THEN Atou(lhs)
                          ELSE [val |-> fd, err |-> Nil]
                   old == Atou(rhs)
               IN IF new.err # Nil
                  THEN [kind |-> "error",
                        format |-> "Invalid new fd in qualified redirection %q",
                        arg |-> lhs]
                  ELSE IF Len(rhs) > 0
                  THEN IF old.err # Nil
                       THEN [kind |-> "error",
                             format |-> "Invalid old fd in qualified redirection %q",
                             arg |-> rhs]
                       ELSE [kind |-> "redir", redir |-> NewFdRedir(new.val, old.val)]
                  ELSE [kind |-> "redir", redir |-> newCloseRedir(new.val)]
          ELSE LET new == Atou(qual)
               IN IF new.err # Nil
                  THEN [kind |-> "error",
                        format |-> "Invalid new fd in qualified redirection %q",
                        arg |-> qual]
                  ELSE [kind |-> "filename", fd |-> fd]
  ELSE [kind |-> "filename", fd |-> fd]

\* redir, lines 380-413: what a qualifier makes of the default fd.  The result
\* is an error (format, arg), a finished Redir, or the fd of a FilenameRedir
\* whose target term is still to be parsed.
redirQualifier(qual, fd) ==
  IF Len(qual) > 0
  THEN LET i == IndexRune(qual, "=")
       IN IF i # -1
          THEN LET lhs == Slice(qual, 0, i)
                   rhs == Slice(qual, i + 1, Len(qual))
                   new == IF Len(lhs) > 0 THEN Atou(lhs)
                          ELSE [val |-> fd, err |-> Nil]
                   old == Atou(rhs)
               IN IF new.err # Nil
                  THEN [kind |-> "error",
                        format |-> "Invalid new fd in qualified redirection %q",
                        arg |-> lhs]
                  ELSE IF Len(rhs) > 0
                  THEN IF old.err # Nil
                       THEN [kind |-> "error",
                             format |-> "Invalid old fd in qualified redirection %q",
                             arg |-> rhs]
                       ELSE [kind |-> "redir", redir |-> NewFdRedir(new.val, old.val)]
                  ELSE [kind |-> "redir", redir |-> newCloseRedir(new.val)]
          ELSE LET new == Atou(qual)
               IN IF new.err # Nil
                  THEN [kind |-> "error",
                        format |-> "Invalid new fd in qualified redirection %q",
                        arg |-> qual]
                  ELSE [kind |-> "filename", fd |-> new.val]
  ELSE [kind |-> "filename", fd |-> fd]

(***************************************************************************)
(* State.                                                                  *)
(*   p        the Parser object                                            *)
(*   stack    the active productions, innermost last; a frame holds the    *)
(*            production, the place it is at, the node it is building and  *)
(*            its other locals                                             *)
(*   ret      the value the production that returned last handed back      *)
(*   phase    "new" (constructed), "running" (inside Parse), "panic"       *)
(*            (errorf has panicked, the deferred recover has not run yet), *)
(*            "returned" (Parse has returned)                              *)
(*   panicked the value of the panic in flight                             *)
(*   result   what the last Parse call returned: (tree, err)               *)
(*   prev     history: the text, root and error of the call before the     *)
(*            current one                                                  *)
(*   steps    history: actions taken by the current call                   *)
(*   calls    history: Parse calls made on this parser                     *)
(***************************************************************************)
VARIABLES p, stack, ret, phase, panicked, result, prev, steps, calls

vars == <<p, stack, ret, phase, panicked, result, prev, steps, calls>>

\* the *Parser that Parse returns on success
ParserRef == [kind |-> "*Parser"]

NoCall == [called |-> FALSE, text |-> <<>>, Root |-> Nil, err |-> Nil]

Frame(fn, pc, node, aux) == [fn |-> fn, pc |-> pc, node |-> node, aux |-> aux]

Entry(fn) == Frame(fn, "entry", Nil, Nil)

Top == stack[Len(stack)]

At(fn, pc) ==
  /\ phase = "running"
  /\ Len(stack) > 0
  /\ Top.fn = fn
  /\ Top.pc = pc

\* the running production calls callee and will go on at frame fr
Call(q, fr, callee) ==
  /\ p' = q
  /\ stack' = Append([stack EXCEPT ![Len(stack)] = fr], Entry(callee))
  /\ ret' = Nil
  /\ steps' = steps + 1
  /\ UNCHANGED <<phase, panicked, result, prev, calls>>

\* the running production returns v to its caller
Return(q, v) ==
  /\ p' = q
  /\ stack' = SubSeq(stack, 1, Len(stack) - 1)
  /\ ret' = v
  /\ steps' = steps + 1
  /\ UNCHANGED <<phase, panicked, result, prev, calls>>

\* as errorf, but the root of an earlier parse is left in place
errorfKeepsRoot(q, pos, format, args) ==
  /\ p' = q
  /\ phase' = "panic"
  /\ panicked' = NewContextualError(q.Name, q.text, pos, format, args)
  /\ steps' = steps + 1
  /\ UNCHANGED <<stack, ret, result, prev, calls>>

\* errorf formats the error and terminates processing
errorf(q, pos, format, args) ==
  /\ p' = [q EXCEPT !.Root = Nil]
  /\ phase' = "panic"
  /\ panicked' = NewContextualError(q.Name, q.text, pos, format, args)
  /\ steps' = steps + 1
  /\ UNCHANGED <<stack, ret, result, prev, calls>>

\* unexpected complains about the token and terminates processing
unexpected(q, token, context) ==
  errorf(q, token.Pos, "unexpected %s in %s",
         [token |-> token, context |-> context])

stopParse(q) == [q EXCEPT !.lex = Nil]

(***************************************************************************)
(* Parse and the deferred recover.                                         *)
(***************************************************************************)
\* Parse, lines 154-162, up to the call of pipeline
ParseCall(text, tab) ==
  /\ p' = [p EXCEPT !.text = text, !.tab = tab, !.lex = Lex(p.Name, text),
                    !.peekCount = 0, !.hist = <<>>]
  /\ stack' = <<Frame("Parse", "pipeline", Nil, Nil), Entry("pipeline")>>
  /\ ret' = Nil
  /\ phase' = "running"
  /\ panicked' = Nil
  /\ result' = [tree |-> Nil, err |-> Nil]
  /\ prev' = IF phase = "returned"
             THEN [called |-> TRUE, text |-> p.text, Root |-> p.Root,
                   err |-> result.err]
             ELSE NoCall
  /\ steps' = 0
  /\ calls' = calls + 1

\* Parse, lines 162-165: pipeline has returned
ParseReturn ==
  /\ At("Parse", "pipeline")
  /\ p' = stopParse([p EXCEPT !.Root = ret])
  /\ stack' = <<>>
  /\ ret' = Nil
  /\ phase' = "returned"
  /\ result' = [tree |-> ParserRef, err |-> Nil]
  /\ steps' = steps + 1
  /\ UNCHANGED <<panicked, prev, calls>>

\* recover turns the panic into Parse's error return
recover ==
  /\ phase = "panic"
  /\ panicked.kind = "ContextualError"
  /\ p' = stopParse(p)
  /\ stack' = <<>>
  /\ ret' = Nil
  /\ phase' = "returned"
  /\ result' = [tree |-> Nil, err |-> panicked]
  /\ panicked' = Nil
  /\ steps' = steps + 1
  /\ UNCHANGED <<prev, calls>>

(***************************************************************************)
(* Productions.                                                            *)
(***************************************************************************)
\* pipeline, lines 170-176: up to the first command
pipeline ==
  /\ At("pipeline", "entry")
  /\ LET r1 == peek(p)
         pipe == newList(r1.token.Pos)
         r2 == peekNonSpace(r1.p)
     IN IF r2.token.Typ = "ItemEOF"
        THEN Return(r2.p, pipe)
        ELSE Call(r2.p, Frame("pipeline", "command", pipe, Nil), "command")

\* as pipelineCommand, but end-of-input goes round the loop like a pipe
pipelineCommandLoopsAtEOF ==
  /\ At("pipeline", "command")
  /\ LET pipe == append(Top.node, ret)
         r == next(p)
     IN CASE r.token.Typ \in {"ItemPipe", "ItemEOF"} ->
               Call(r.p, Frame("pipeline", "command", pipe, Nil), "command")
          [] r.token.Typ = "ItemEndOfLine" -> Return(r.p, pipe)
          [] OTHER -> unexpected(r.p, r.token, "end of pipeline")

\* as pipelineCommand, but a command followed by a pipe is not kept
pipelineCommandDropsPiped ==
  /\ At("pipeline", "command")
  /\ LET pipe == append(Top.node, ret)
         r == next(p)
     IN CASE r.token.Typ = "ItemPipe" ->
               Call(r.p, Frame("pipeline", "command", Top.node, Nil), "command")
          [] r.token.Typ \in {"ItemEndOfLine", "ItemEOF"} ->
               Return(r.p, pipe)
          [] OTHER -> unexpected(r.p, r.token, "end of pipeline")

\* pipeline, lines 177-188: a command has returned
pipelineCommand ==
  /\ At("pipeline", "command")
  /\ LET pipe == append(Top.node, ret)
         r == next(p)
     IN CASE r.token.Typ = "ItemPipe" ->
               Call(r.p, Frame("pipeline", "command", pipe, Nil), "command")
          [] r.token.Typ \in {"ItemEndOfLine", "ItemEOF"} ->
               Return(r.p, pipe)
          [] OTHER -> unexpected(r.p, r.token, "end of pipeline")

\* command, lines 194-195: up to the term list
command ==
  /\ At("command", "entry")
  /\ LET r == peek(p)
         cmd == newCommand(r.token.Pos)
     IN Call(r.p, Frame("command", "termList", cmd, Nil), "termList")

\* command, lines 196-205: the loop over redirections
commandLoop(q, cmd) ==
  LET r == peekNonSpace(q)
  IN IF r.token.Typ = "ItemRedirLeader"
     THEN Call(r.p, Frame("command", "redir", cmd, Nil), "redir")
     ELSE Return(r.p, cmd)

\* command, line 195: the term list has returned
commandTermList ==
  /\ At("command", "termList")
  /\ commandLoop(p, [Top.node EXCEPT !.ListNode = ret])

\* command, line 200: a redirection has returned
commandRedir ==
  /\ At("command", "redir")
  /\ commandLoop(p, [Top.node EXCEPT !.Redirs = Append(@, ret)])

\* termList, lines 210-211: up to the first term
termList ==
  /\ At("termList", "entry")
  /\ LET r == peek(p)
         list == newList(r.token.Pos)
     IN Call(r.p, Frame("termList", "term", list, Nil), "term")

\* termList, lines 211-220: a term has returned
termListTerm ==
  /\ At("termList", "term")
  /\ LET list == append(Top.node, ret)
         r == peekNonSpace(p)
     IN IF startsFactor(r.token.Typ)
        THEN Call(r.p, Frame("termList", "term", list, Nil), "term")
        ELSE Return(r.p, list)

\* term, lines 225-226: up to the first factor
term ==
  /\ At("term", "entry")
  /\ LET r == peek(p)
         t == newList(r.token.Pos)
     IN Call(r.p, Frame("term", "factor", t, Nil), "factor")

\* as termFactor, but the caret is left for the factor that follows it
termFactorKeepsCaret ==
  /\ At("term", "factor")
  /\ LET t == append(Top.node, ret)
         r1 == peek(p)
     IN IF startsFactor(r1.token.Typ)
        THEN Call(r1.p, Frame("term", "factor", t, Nil), "factor")
        ELSE LET r2 == peekNonSpace(r1.p)
             IN IF r2.token.Typ = "ItemCaret"
                THEN LET r4 == peekNonSpace(r2.p)
                     IN Call(r4.p, Frame("term", "factor", t, Nil), "factor")
                ELSE Return(r2.p, t)

\* term, lines 226-239: a factor has returned
termFactor ==
  /\ At("term", "factor")
  /\ LET t == append(Top.node, ret)
         r1 == peek(p)
     IN IF startsFactor(r1.token.Typ)
        THEN Call(r1.p, Frame("term", "factor", t, Nil), "factor")
        ELSE LET r2 == peekNonSpace(r1.p)
             IN IF r2.token.Typ = "ItemCaret"
                THEN LET r3 == next(r2.p)
                         r4 == peekNonSpace(r3.p)
                     IN Call(r4.p, Frame("term", "factor", t, Nil), "factor")
                ELSE Return(r2.p, t)

RECURSIVE factorDollarsCountsOne(_, _)
\* as factorDollars, but the depth is set, not counted up
factorDollarsCountsOne(q, fn) ==
  LET r == peek(q)
  IN IF r.token.Typ = "ItemDollar"
     THEN factorDollarsCountsOne(next(r.p).p, [fn EXCEPT !.Dollar = 1])
     ELSE [p |-> r.p, fn |-> fn]

RECURSIVE factorDollars(_, _)
\* factor, lines 275-278: the loop over leading dollars
factorDollars(q, fn) ==
  LET r == peek(q)
  IN IF r.token.Typ = "ItemDollar"
     THEN factorDollars(next(r.p).p, [fn EXCEPT !.Dollar = @ + 1])
     ELSE [p |-> r.p, fn |-> fn]

\* factor, lines 274-304: up to the return or the nested production
factor ==
  /\ At("factor", "entry")
  /\ LET r0 == peek(p)
         d == factorDollars(r0.p, newFactor(r0.token.Pos))
         r == next(d.p)
         token == r.token
     IN CASE token.Typ \in {"ItemBare", "ItemSingleQuoted", "ItemDoubleQuoted"} ->
               LET u == unquote(token)
               IN IF u.err # Nil
                  THEN errorf(r.p, token.Pos, "%s", u.err)
                  ELSE Return([r.p EXCEPT !.Ctx =
                                 IF "MayContinue" \in token.End
                                 THEN NewArgContext(token.Val) ELSE Nil],
                              [d.fn EXCEPT !.Node =
                                 newString(token.Pos, token.Val, u.text)])
          [] token.Typ = "ItemLParen" ->
               Call(r.p, Frame("factor", "termList", d.fn, Nil), "termList")
          [] token.Typ = "ItemLBracket" ->
               Call(r.p, Frame("factor", "table", d.fn, Nil), "table")
          [] OTHER -> unexpected(r.p, token, "factor")

\* factor, lines 293-297: the parenthesized term list has returned
factorTermList ==
  /\ At("factor", "termList")
  /\ LET fn == [Top.node EXCEPT !.Node = ret]
         r == next(p)
     IN IF r.token.Typ # "ItemRParen"
        THEN unexpected(r.p, r.token, "factor of item list")
        ELSE Return(r.p, fn)

\* factor, lines 299-300: the table has returned
factorTable ==
  /\ At("factor", "table")
  /\ Return(p, [Top.node EXCEPT !.Node = ret])

\* table, lines 313-335: one turn of the loop, up to the element's first term
tableLoop(q, tn) ==
  LET r == nextNonSpace(q)
  IN IF startsFactor(r.token.Typ)
     THEN Call(backup(r.p), Frame("table", "term", tn, Nil), "term")
     ELSE IF r.token.Typ = "ItemRBracket"
          THEN Return(r.p, tn)
          ELSE unexpected(r.p, r.token, "table literal")

\* table, line 311 and the first turn of the loop
table ==
  /\ At("table", "entry")
  /\ LET r == peek(p)
     IN tableLoop(r.p, newTable(r.token.Pos))

\* table, lines 317-329: an element's first term has returned
tableTerm ==
  /\ At("table", "term")
  /\ LET r == peekNonSpace(p)
     IN IF r.token.Typ = "ItemBare" /\ r.token.Val = <<"=">>
        THEN LET r2 == next(r.p)
                 r3 == peekNonSpace(r2.p)
             IN Call(r3.p, Frame("table", "value", Top.node, ret), "term")
        ELSE tableLoop(r.p, appendToList(Top.node, ret))

\* table, lines 324-325: a pair's value term has returned
tableValue ==
  /\ At("table", "value")
  /\ tableLoop(p, appendToDict(Top.node, Top.aux, ret))

\* redir, lines 344-416: up to the return or the target term
redir ==
  /\ At("redir", "entry")
  /\ LET r == next(p)
         leader == r.token
         part == redirPartition(leader.Val)
         d == redirDirection(part.dir)
         q == redirQualifier(part.qual, d.fd)
     IN IF ~d.ok
        THEN errorf(r.p, leader.Pos, "Unexpected redirection direction %q",
                    part.dir)
        ELSE CASE q.kind = "error" -> errorf(r.p, leader.Pos, q.format, q.arg)
               [] q.kind = "redir" -> Return(r.p, q.redir)
               [] OTHER ->
                    LET r2 == peekNonSpace(r.p)
                    IN Call(r2.p,
                            Frame("redir", "term", Nil,
                                  [fd |-> q.fd, flag |-> d.flag]),
                            "term")

\* redir, line 416: the target term has returned
redirTerm ==
  /\ At("redir", "term")
  /\ Return(p, newFilenameRedir(Top.aux.fd, Top.aux.flag, ret))

(***************************************************************************)
(* Inputs: the item sequences the lexer makes of the texts handed to       *)
(* Parse.  The lexer ends each with ItemEOF.                               *)
(***************************************************************************)
tBare == Lexeme("ItemBare", <<"a">>, {})
tCont == Lexeme("ItemBare", <<"c">>, {"MayContinue"})
tEq == Lexeme("ItemBare", <<"=">>, {})
tSingle == Lexeme("ItemSingleQuoted", <<"bq", "x", "bq", "bq", "bq">>, {})
tDouble == Lexeme("ItemDoubleQuoted", <<"dq", "x", "bs", "n", "dq">>, {})
tDoubleBad == Lexeme("ItemDoubleQuoted", <<"dq", "bs", "x", "dq">>, {})
tPipe == Lexeme("ItemPipe", <<"|">>, {})
tCaret == Lexeme("ItemCaret", <<"^">>, {})
tDollar == Lexeme("ItemDollar", <<"$">>, {})
tLParen == Lexeme("ItemLParen", <<"(">>, {})
tRParen == Lexeme("ItemRParen", <<")">>, {})
tLBracket == Lexeme("ItemLBracket", <<"[">>, {})
tRBracket == Lexeme("ItemRBracket", <<"]">>, {})
tSpace == Lexeme("ItemSpace", <<" ">>, {})
tEOL == Lexeme("ItemEndOfLine", <<"nl">>, {})
tLeader(val) == Lexeme("ItemRedirLeader", val, {})

Directions == {<<"<">>, <<"<", ">">>, <<">">>, <<">", ">">>, <<">", "<">>}

Qualifiers ==
  {<<>>, <<"[", "]">>, <<"[", "2", "]">>, <<"[", "1", "2", "]">>,
   <<"[", "2", "=", "1", "]">>, <<"[", "3", "=", "]">>,
   <<"[", "=", "1", "]">>, <<"[", "=", "]">>, <<"[", "x", "]">>,
   <<"[", "x", "=", "1", "]">>, <<"[", "2", "=", "x", "]">>}

Leaders == {tLeader(d \o q) : d \in Directions, q \in Qualifiers}

\* all sequences of at most n items of alpha
Streams(alpha, n) == UNION {[1..k -> alpha] : k \in 0..n}

GeneralAlphabet ==
  {tBare, tCont, tPipe, tCaret, tDollar, tLParen, tRParen, tLBracket,
   tRBracket, tSpace, tEOL, tLeader(<<">">>)}

LiteralAlphabet == {tBare, tCont, tEq, tSingle, tDouble, tDoubleBad}

PipelineAlphabet == {tBare, tPipe, tSpace, tEOL}

NestingAlphabet == {tBare, tDollar, tLParen, tRParen}

TableAlphabet == {tBare, tEq, tSpace}

RedirAlphabet == {tBare, tSpace}

\* the texts a new parser is given
Inputs ==
  Streams(GeneralAlphabet, MaxLen)
  \cup Streams(LiteralAlphabet, MaxLen)
  \cup Streams(PipelineAlphabet, MaxBody)
  \cup Streams(NestingAlphabet, MaxBody)
  \cup {<<tLBracket>> \o s \o <<tRBracket>> : s \in Streams(TableAlphabet, MaxBody)}
  \cup {<<tBare, l>> \o s : l \in Leaders, s \in Streams(RedirAlphabet, MaxLen)}

Tabs == {FALSE}

\* the texts a parser that will be used again is given first
ReuseAlphabet == {tCont, tCaret, tSpace}

Seeds ==
  {<<tBare, tSingle>>,
   <<tLParen, tBare, tRParen>>,
   <<tBare, tPipe, tBare>>,
   <<tLBracket, tRBracket>>,
   <<tLBracket, tBare, tSpace, tEq, tBare, tRBracket>>,
   <<tBare, tLeader(<<">">>), tBare>>,
   <<tBare, tLeader(<<">", "[", "2", "=", "1", "]">>)>>,
   <<tDollar, tDoubleBad>>}

ReuseInputs == Streams(ReuseAlphabet, MaxReuseLen) \cup Seeds

\* text with item t put in after its first i items
Insert(text, i, t) ==
  SubSeq(text, 1, i) \o <<t>> \o SubSeq(text, i + 1, Len(text))

\* text without its i-th item
Delete(text, i) == SubSeq(text, 1, i - 1) \o SubSeq(text, i + 1, Len(text))

\* the texts a parser is given next: the text it parsed last, unchanged or
\* with one item typed in or rubbed out
Edits(text) ==
  {text}
  \cup {Insert(text, i, t) : i \in 0..Len(text), t \in ReuseAlphabet}
  \cup {Delete(text, i) : i \in 1..Len(text)}

(***************************************************************************)
(* Specification: one Parse call on a new parser.                          *)
(***************************************************************************)
Init ==
  /\ p = NewParser("script")
  /\ stack = <<>>
  /\ ret = Nil
  /\ phase = "new"
  /\ panicked = Nil
  /\ result = [tree |-> Nil, err |-> Nil]
  /\ prev = NoCall
  /\ steps = 0
  /\ calls = 0

Parse ==
  /\ phase = "new"
  /\ \E text \in Inputs, tab \in Tabs : ParseCall(text, tab)

Step ==
  \/ ParseReturn
  \/ recover
  \/ pipeline
  \/ pipelineCommand
  \/ command
  \/ commandTermList
  \/ commandRedir
  \/ termList
  \/ termListTerm
  \/ term
  \/ termFactor
  \/ factor
  \/ factorTermList
  \/ factorTable
  \/ table
  \/ tableTerm
  \/ tableValue
  \/ redir
  \/ redirTerm

Next == Parse \/ Step

Spec == Init /\ [][Next]_vars

(***************************************************************************)
(* Specification: a parser that is used again, as a line editor does that  *)
(* parses the line anew after each edit.                                   *)
(***************************************************************************)
ParseFirst ==
  /\ phase = "new"
  /\ \E text \in ReuseInputs, tab \in Tabs : ParseCall(text, tab)

ParseAgain ==
  /\ phase = "returned"
  /\ calls < MaxCalls
  /\ \E text \in Edits(p.text), tab \in Tabs : ParseCall(text, tab)

NextReuse == ParseFirst \/ ParseAgain \/ Step

SpecReuse == Init /\ [][NextReuse]_vars

(***************************************************************************)
(* Properties.                                                             *)
(***************************************************************************)
Returned == phase = "returned"

Succeeded == phase = "returned" /\ result.err = Nil

Failed == phase = "returned" /\ result.err # Nil

Range(f) == {f[i] : i \in DOMAIN f}

\* the first item of text that is no space, ItemEOF when there is none
RECURSIVE FirstNonSpace(_, _)
FirstNonSpace(text, n) ==
  IF ItemAt(text, n).Typ # "ItemSpace" THEN ItemAt(text, n)
  ELSE FirstNonSpace(text, n + 1)

\* the places in sequence s of the items of type typ, in order
Indexes(s, typ) ==
  LET idx == {i \in 1..Len(s) : s[i].Typ = typ}
      RECURSIVE Sorted(_)
      Sorted(S) == IF S = {} THEN <<>>
                   ELSE LET m == CHOOSE x \in S : \A y \in S : x <= y
                        IN <<m>> \o Sorted(S \ {m})
  IN Sorted(idx)

(* C9: while a Parse call runs, the pushback count stays within 0..3, the
   lookahead buffer holds the items the lexer returned last (so peek then
   next, and next, backup, next, hand out the same item), and the items
   handed out and not taken back are exactly the lexer's items so far, in
   order, none twice and none left out. *)
C9_CursorReplaysLexer ==
  p.lex # Nil =>
    /\ p.peekCount \in 0..3
    /\ p.peekCount <= p.lex.pulled
    /\ \A i \in 0..(p.peekCount - 1) :
         p.token[i] = ItemAt(p.text, p.lex.pulled - i)
    /\ Len(p.hist) = p.lex.pulled - p.peekCount
    /\ \A i \in 1..Len(p.hist) : p.hist[i] = ItemAt(p.text, i)
    /\ next(peek(p).p).token = peek(p).token
    /\ next(backup(next(p).p)).token = next(p).token

C9_Witness ==
  /\ phase = "running"
  /\ p.peekCount = 1
  /\ Len(p.hist) >= 3
  /\ \E i \in 1..Len(p.hist) : p.hist[i].Typ = "ItemSpace"

\* the places a production can be at, each the guard of one action
StepPlaces ==
  {<<"Parse", "pipeline">>, <<"pipeline", "entry">>, <<"pipeline", "command">>,
   <<"command", "entry">>, <<"command", "termList">>, <<"command", "redir">>,
   <<"termList", "entry">>, <<"termList", "term">>, <<"term", "entry">>,
   <<"term", "factor">>, <<"factor", "entry">>, <<"factor", "termList">>,
   <<"factor", "table">>, <<"table", "entry">>, <<"table", "term">>,
   <<"table", "value">>, <<"redir", "entry">>, <<"redir", "term">>}

(* C8: a Parse call that has not returned can always take its next step (a
   production is at a place where it goes on, with the value it waits for
   at hand), it never asks the lexer for more than the text's items and one
   end-of-input item, and the steps it has taken are at most five for each
   item consumed (and five to start with): work is linear in the items
   consumed, so the call returns. *)
C8_WorkBounded ==
  /\ phase = "running" =>
       /\ Len(stack) > 0
       /\ <<Top.fn, Top.pc>> \in StepPlaces
       /\ Top.pc # "entry" => ret # Nil
  /\ phase = "panic" => panicked.kind = "ContextualError"
  /\ p.lex # Nil => p.lex.pulled <= Len(p.text) + 1
  /\ steps <= 5 * (Len(p.hist) + 1)

C8_Witness ==
  /\ Succeeded
  /\ Len(p.text) >= 5
  /\ steps >= 20

(* C2: a successful parse of a text whose first non-space item is
   end-of-input has no command; any other successful parse has one command
   more than the pipes consumed, the commands are CommandNodes in source
   order (the first starts at the first non-space item, each next one at
   the item after its pipe), and the last item consumed is the end-of-line
   or end-of-input that ends the pipeline.  A text of spaces only always
   parses. *)
C2_CommandCount ==
  Returned =>
    LET empty == FirstNonSpace(p.text, 1).Typ = "ItemEOF"
        pipes == Indexes(p.hist, "ItemPipe")
        cmds == p.Root.Nodes
    IN /\ empty => result.err = Nil /\ Len(cmds) = 0
       /\ (result.err = Nil /\ ~empty) =>
            /\ Len(cmds) = 1 + Len(pipes)
            /\ \A k \in 1..Len(cmds) : cmds[k].kind = "Command"
            /\ cmds[1].Pos = FirstNonSpace(p.text, 1).Pos
            /\ \A k \in 1..Len(pipes) :
                 cmds[k + 1].Pos = ItemAt(p.text, pipes[k] + 1).Pos
            /\ p.hist[Len(p.hist)].Typ \in {"ItemEndOfLine", "ItemEOF"}
            /\ \A i \in 1..(Len(p.hist) - 1) :
                 p.hist[i].Typ \notin {"ItemEndOfLine", "ItemEOF"}

C2_Witness ==
  /\ Succeeded
  /\ Len(p.Root.Nodes) = 3
  /\ Len(Indexes(p.hist, "ItemPipe")) = 2

(* C1: a Parse call that has returned has either returned the parser and no
   error, the root being a tree, or no tree and one ContextualError, the
   root being nil; and once a violation is raised the root is nil and the
   only step left is the return: no item is consumed after it. *)
C1_Outcome ==
  /\ [](Returned =>
         \/ /\ result.err = Nil
            /\ result.tree = ParserRef
            /\ p.Root # Nil
            /\ p.Root.kind = "List"
         \/ /\ result.err # Nil
            /\ result.err.kind = "ContextualError"
            /\ result.tree = Nil
            /\ p.Root = Nil)
  /\ [](phase = "panic" => p.Root = Nil)
  /\ [][phase = "panic" => (phase' = "returned" /\ p'.hist = p.hist)]_vars

C1_Witness ==
  /\ Failed
  /\ calls = 2
  /\ prev.Root # Nil
  /\ Len(p.hist) >= 2

\* the index in the current text of the item at byte offset pos
IndexAt(text, pos) == CHOOSE i \in 1..(Len(text) + 1) : ItemAt(text, i).Pos = pos

RECURSIVE DollarsFrom(_, _)
\* how many ItemDollar items of text stand in a row from index i on
DollarsFrom(text, i) ==
  IF ItemAt(text, i).Typ = "ItemDollar" THEN 1 + DollarsFrom(text, i + 1) ELSE 0

RECURSIVE TermListShape(_, _), TermShape(_, _), FactorShape(_, _)
TermListShape(text, l) ==
  /\ l.kind = "List"
  /\ Len(l.Nodes) >= 1
  /\ \A k \in 1..Len(l.Nodes) : TermShape(text, l.Nodes[k])

TermShape(text, t) ==
  /\ t.kind = "List"
  /\ Len(t.Nodes) >= 1
  /\ \A k \in 1..Len(t.Nodes) : FactorShape(text, t.Nodes[k])

FactorShape(text, f) ==
  /\ f.kind = "Factor"
  /\ f.Node # Nil
  /\ LET i == IndexAt(text, f.Pos)
         opener == ItemAt(text, i + f.Dollar)
     IN /\ f.Dollar >= 0
        /\ f.Dollar = DollarsFrom(text, i)
        /\ i > 1 => ItemAt(text, i - 1).Typ # "ItemDollar"
        /\ CASE f.Node.kind = "String" ->
                  /\ opener.Typ \in {"ItemBare", "ItemSingleQuoted", "ItemDoubleQuoted"}
                  /\ f.Node.Pos = opener.Pos
                  /\ f.Node.Quoted = opener.Val
             [] f.Node.kind = "List" ->
                  /\ opener.Typ = "ItemLParen"
                  /\ TermListShape(text, f.Node)
             [] f.Node.kind = "Table" ->
                  /\ opener.Typ = "ItemLBracket"
                  /\ \A k \in 1..Len(f.Node.List) : TermShape(text, f.Node.List[k])
                  /\ \A k \in 1..Len(f.Node.Dict) :
                       /\ TermShape(text, f.Node.Dict[k].Key)
                       /\ TermShape(text, f.Node.Dict[k].Value)
             [] OTHER -> FALSE

CommandShape(text, c) ==
  /\ c.kind = "Command"
  /\ TermListShape(text, c.ListNode)
  /\ \A k \in 1..Len(c.Redirs) :
       c.Redirs[k].kind = "FilenameRedir" => TermShape(text, c.Redirs[k].Filename)

(* C7: in the tree of a successful parse every term list (a command's, a
   parenthesized group's) has at least one term, every term has at least
   one factor, only the root pipeline may have no child and has none only
   when the first non-space item is end-of-input, and every factor has one
   child, a string, a parenthesized term list or a table, opened by the
   item that follows the factor's dollars, its depth being the number of
   dollar items standing in a row before that item. *)
C7_TreeShape ==
  Succeeded =>
    /\ p.Root.kind = "List"
    /\ \A k \in 1..Len(p.Root.Nodes) : CommandShape(p.text, p.Root.Nodes[k])
    /\ Len(p.Root.Nodes) = 0 => FirstNonSpace(p.text, 1).Typ = "ItemEOF"

C7_Witness ==
  /\ Succeeded
  /\ Len(p.Root.Nodes) = 1
  /\ LET f == p.Root.Nodes[1].ListNode.Nodes[1].Nodes[1]
     IN f.Dollar = 2 /\ f.Node.kind = "List"

\* what the rule table of redirections makes of a leader's text
RuleDirections ==
  [d \in {<<"<">>, <<"<", ">">>, <<">">>, <<">", ">">>} |->
     CASE d = <<"<">> -> [fd |-> 0, flag |-> {}]
       [] d = <<"<", ">">> -> [fd |-> 0, flag |-> {"O_RDWR", "O_CREATE"}]
       [] d = <<">">> -> [fd |-> 1, flag |-> {"O_WRONLY", "O_CREATE"}]
       [] d = <<">", ">">> ->
            [fd |-> 1, flag |-> {"O_WRONLY", "O_CREATE", "O_APPEND"}]]

IsNumber(s) == Len(s) > 0 /\ \A i \in 1..Len(s) : s[i] \in DOMAIN Digits

\* the part of s before its first c (all of s when it has none)
Before(s, c) ==
  IF c \in Range(s)
  THEN SubSeq(s, 1, (CHOOSE i \in 1..Len(s) :
                       s[i] = c /\ \A j \in 1..(i - 1) : s[j] # c) - 1)
  ELSE s

\* the part of s after its first c
After(s, c) == SubSeq(s, Len(Before(s, c)) + 2, Len(s))

RuleQualifier(val) ==
  IF "[" \in Range(val)
  THEN SubSeq(After(val, "["), 1, Len(After(val, "[")) - 1)
  ELSE <<>>

RuleWellFormed(val) ==
  LET qual == RuleQualifier(val)
  IN /\ Before(val, "[") \in DOMAIN RuleDirections
     /\ IF "=" \in Range(qual)
        THEN /\ Before(qual, "=") = <<>> \/ IsNumber(Before(qual, "="))
             /\ After(qual, "=") = <<>> \/ IsNumber(After(qual, "="))
        ELSE qual = <<>> \/ IsNumber(qual)

RuleRedir(val) ==
  LET qual == RuleQualifier(val)
      def == RuleDirections[Before(val, "[")]
  IN IF "=" \in Range(qual)
     THEN LET lhs == Before(qual, "=")
              rhs == After(qual, "=")
              fd == IF lhs = <<>> THEN def.fd ELSE AtouValue(lhs)
          IN IF rhs = <<>>
             THEN [kind |-> "CloseRedir", fd |-> fd]
             ELSE [kind |-> "FdRedir", fd |-> fd, OldFd |-> AtouValue(rhs)]
     ELSE [kind |-> "FilenameRedir",
           fd |-> IF qual = <<>> THEN def.fd ELSE AtouValue(qual),
           Flag |-> def.flag]

\* the index in the items consumed of the last redirection leader
LastLeader ==
  CHOOSE i \in 1..Len(p.hist) :
    /\ p.hist[i].Typ = "ItemRedirLeader"
    /\ \A j \in (i + 1)..Len(p.hist) : p.hist[j].Typ # "ItemRedirLeader"

RedirReturned ==
  /\ phase = "running"
  /\ Len(stack) > 0
  /\ Top.fn = "command"
  /\ Top.pc = "redir"

RedirRaised ==
  /\ phase = "panic"
  /\ Top.fn = "redir"
  /\ Top.pc = "entry"

(* C4: redir raises an error at the leader only when the leader's direction
   is not one of the four or a number of its qualifier is malformed; when
   redir returns, the Redir it returns is the rule table's: kind, fd and
   flag as the direction and the qualifier say.  A FilenameRedir holds the
   term that follows the leader; with an FdRedir or a CloseRedir the leader
   is the last item consumed and nothing is pushed back. *)
C4_RedirRules ==
  /\ RedirRaised => ~RuleWellFormed(p.hist[Len(p.hist)].Val)
  /\ RedirReturned =>
       LET leader == p.hist[LastLeader]
           rule == RuleRedir(leader.Val)
       IN /\ RuleWellFormed(leader.Val)
          /\ ret.kind = rule.kind
          /\ ret.fd = rule.fd
          /\ ret.kind = "FdRedir" => ret.OldFd = rule.OldFd
          /\ ret.kind \in {"FdRedir", "CloseRedir"} =>
               /\ LastLeader = Len(p.hist)
               /\ p.peekCount = 0
          /\ ret.kind = "FilenameRedir" =>
               /\ ret.Flag = rule.Flag
               /\ TermShape(p.text, ret.Filename)
               /\ ret.Filename.Pos > leader.Pos
               /\ LastLeader < Len(p.hist)

C4_Witness ==
  /\ RedirReturned
  /\ ret.kind = "FilenameRedir"
  /\ ret.fd = 12
  /\ ret.Flag = {"O_WRONLY", "O_CREATE", "O_APPEND"}

RECURSIVE StringsIn(_)
\* the offsets of the string nodes of a tree
StringsIn(n) ==
  CASE n.kind = "List" -> UNION {StringsIn(n.Nodes[k]) : k \in 1..Len(n.Nodes)}
    [] n.kind = "Command" ->
         StringsIn(n.ListNode)
         \cup UNION {StringsIn(n.Redirs[k]) : k \in 1..Len(n.Redirs)}
    [] n.kind = "FilenameRedir" -> StringsIn(n.Filename)
    [] n.kind = "Factor" -> StringsIn(n.Node)
    [] n.kind = "String" -> {n.Pos}
    [] n.kind = "Table" ->
         UNION {StringsIn(n.List[k]) : k \in 1..Len(n.List)}
         \cup UNION {StringsIn(n.Dict[k].Key) \cup StringsIn(n.Dict[k].Value) :
                       k \in 1..Len(n.Dict)}
    [] OTHER -> {}

\* the last string item factor accepted in a call that built tree root
LastString(text, root) ==
  LET at == StringsIn(root)
  IN ItemAt(text, IndexAt(text, CHOOSE m \in at : \A k \in at : k <= m))

(* C6: after a successful Parse, on a new parser or on one used before, Ctx
   is set if and only if the last bare or quoted item factor accepted in
   this call may continue, and it is then the context of that item; Ctx is
   absent when that item may not continue and when the call accepted no
   such item. *)
C6_CtxOfLastString ==
  Succeeded =>
    IF StringsIn(p.Root) = {}
    THEN p.Ctx = Nil
    ELSE LET last == LastString(p.text, p.Root)
         IN IF "MayContinue" \in last.End
            THEN p.Ctx = NewArgContext(last.Val)
            ELSE p.Ctx = Nil

RECURSIVE Strip(_)
\* a tree without its source offsets
Strip(n) ==
  CASE n.kind = "List" ->
         [kind |-> "List", Nodes |-> [k \in 1..Len(n.Nodes) |-> Strip(n.Nodes[k])]]
    [] n.kind = "Command" ->
         [kind |-> "Command", ListNode |-> Strip(n.ListNode),
          Redirs |-> [k \in 1..Len(n.Redirs) |-> Strip(n.Redirs[k])]]
    [] n.kind = "FilenameRedir" ->
         [kind |-> "FilenameRedir", fd |-> n.fd, Flag |-> n.Flag,
          Filename |-> Strip(n.Filename)]
    [] n.kind = "Factor" ->
         [kind |-> "Factor", Dollar |-> n.Dollar, Node |-> Strip(n.Node)]
    [] n.kind = "String" ->
         [kind |-> "String", Quoted |-> n.Quoted, Text |-> n.Text]
    [] n.kind = "Table" ->
         [kind |-> "Table",
          List |-> [k \in 1..Len(n.List) |-> Strip(n.List[k])],
          Dict |-> [k \in 1..Len(n.Dict) |->
                      [Key |-> Strip(n.Dict[k].Key),
                       Value |-> Strip(n.Dict[k].Value)]]]
    [] OTHER -> n

\* item i of text ends a factor of the tree root built from it
EndsFactor(text, root, i) ==
  \/ text[i].Typ \in {"ItemRParen", "ItemRBracket"}
  \/ /\ text[i].Typ \in {"ItemBare", "ItemSingleQuoted", "ItemDoubleQuoted"}
     /\ Offset(text, i) \in StringsIn(root)

\* new is old with a caret put between two adjacent factors of a term
CaretJoins(old, root, new) ==
  \E i \in 1..(Len(old) - 1) :
    /\ new = Insert(old, i, tCaret)
    /\ EndsFactor(old, root, i)
    /\ startsFactor(old[i + 1].Typ)

\* the call before this one parsed the juxtaposed text, this one the text
\* with the caret, or the other way round
CaretPair ==
  /\ Returned
  /\ prev.called
  /\ \/ prev.err = Nil /\ CaretJoins(prev.text, prev.Root, p.text)
     \/ result.err = Nil /\ CaretJoins(p.text, p.Root, prev.text)

(* C5, as the specification states it: of two texts that differ only in a
   caret between two adjacent factors of a term, both parsed, the trees
   differ in something other than source offsets. *)
C5_JoinRecorded ==
  (CaretPair /\ prev.err = Nil /\ result.err = Nil) =>
    Strip(prev.Root) # Strip(p.Root)

(* C5, as the code has it: when the text with two adjacent factors parses,
   the text with a caret between them parses too, and the two trees are
   the same apart from source offsets: the tree does not record how a
   factor was joined to the one before it. *)
C5_JoinNotRecorded ==
  CaretPair =>
    /\ prev.err = Nil
    /\ result.err = Nil
    /\ Strip(prev.Root) = Strip(p.Root)

C5_Witness ==
  /\ CaretPair
  /\ Succeeded
  /\ Len(p.text) = 3
  /\ p.text[2] = tCaret
  /\ Len(p.Root.Nodes[1].ListNode.Nodes[1].Nodes) = 2

\* new is old with a space put after a "(" or a "|" that a term follows
SpaceLeads(old, new) ==
  \E i \in 1..(Len(old) - 1) :
    /\ new = Insert(old, i, tSpace)
    /\ old[i].Typ \in {"ItemLParen", "ItemPipe"}
    /\ startsFactor(old[i + 1].Typ)

(* C10: a text with a space item between "(" and the first term of the
   group, or between "|" and the first term of the next command, parses
   when the text without that space does, and its tree is the same apart
   from source offsets. *)
C10_LeadingSpace ==
  (Returned /\ prev.called /\ prev.err = Nil /\ SpaceLeads(prev.text, p.text)) =>
    /\ result.err = Nil
    /\ Strip(p.Root) = Strip(prev.Root)

IsSpace(t) == t.Typ = "ItemSpace"

IsEquals(t) == t.Typ = "ItemBare" /\ t.Val = <<"=">>

RECURSIVE SkipSpaces(_, _)
\* the index of the first item of body from i on that is not a space
SkipSpaces(body, i) ==
  IF i <= Len(body) /\ IsSpace(body[i]) THEN SkipSpaces(body, i + 1) ELSE i

RECURSIVE TermEnd(_, _)
\* the index of the last item of the term of body that starts at i
TermEnd(body, i) ==
  IF i < Len(body) /\ ~IsSpace(body[i + 1]) /\ ~IsEquals(body[i + 1])
  THEN TermEnd(body, i + 1)
  ELSE i

RECURSIVE TableElements(_, _)
\* the elements of a table body from i on, as the specification reads them:
\* a term, "=" and a term with or without spaces around the "=" is a
\* pair, any other term is a list element
TableElements(body, i) ==
  LET j == SkipSpaces(body, i)
  IN IF j > Len(body) THEN [ok |-> TRUE, elems |-> <<>>]
     ELSE IF IsEquals(body[j]) THEN [ok |-> FALSE, elems |-> <<>>]
     ELSE LET e == TermEnd(body, j)
              k == SkipSpaces(body, e + 1)
          IN IF k <= Len(body) /\ IsEquals(body[k])
             THEN LET v == SkipSpaces(body, k + 1)
                  IN IF v > Len(body) \/ IsEquals(body[v])
                     THEN [ok |-> FALSE, elems |-> <<>>]
                     ELSE LET rest == TableElements(body, TermEnd(body, v) + 1)
                          IN [ok |-> rest.ok,
                              elems |-> <<[pair |-> TRUE, at |-> j, value |-> v]>>
                                        \o rest.elems]
             ELSE LET rest == TableElements(body, e + 1)
                  IN [ok |-> rest.ok,
                      elems |-> <<[pair |-> FALSE, at |-> j, value |-> j]>>
                                \o rest.elems]

IsPair(e) == e.pair

IsPlain(e) == ~e.pair

\* the text is one table literal over bare items and spaces
IsTableText(text) ==
  /\ Len(text) >= 2
  /\ text[1].Typ = "ItemLBracket"
  /\ text[Len(text)].Typ = "ItemRBracket"
  /\ \A i \in 2..(Len(text) - 1) : text[i].Typ \in {"ItemBare", "ItemSpace"}

(* C3: in a table literal every element written term, "=", term, with or
   without spaces on either side of the "=", is one pair of the mapping
   part, every other element is one element of the list part, and both
   parts keep the order of the source. *)
C3_TableParts ==
  (Returned /\ IsTableText(p.text)) =>
    LET body == SubSeq(p.text, 2, Len(p.text) - 1)
        read == TableElements(body, 1)
        pairs == SelectSeq(read.elems, IsPair)
        plain == SelectSeq(read.elems, IsPlain)
    IN read.ok =>
         /\ result.err = Nil
         /\ LET tn == p.Root.Nodes[1].ListNode.Nodes[1].Nodes[1].Node
            IN /\ tn.kind = "Table"
               /\ Len(tn.List) = Len(plain)
               /\ Len(tn.Dict) = Len(pairs)
               /\ \A k \in 1..Len(plain) :
                    tn.List[k].Pos = Offset(p.text, plain[k].at + 1)
               /\ \A k \in 1..Len(pairs) :
                    /\ tn.Dict[k].Key.Pos = Offset(p.text, pairs[k].at + 1)
                    /\ tn.Dict[k].Value.Pos = Offset(p.text, pairs[k].value + 1)

=============================================================================
